---- MODULE Spec2Model ----
(***************************************************************************)
(* A model of push_notifications/apns.py: the legacy binary APNS client.   *)
(*                                                                         *)
(* Byte strings are sequences of integers 0..255; text is a sequence of    *)
(* ASCII codes.  A hex token is a sequence of character codes too, so that *)
(* unhexlify can reject what binascii rejects.  Each caller thread runs    *)
(* one library call at a time; a call is followed line by line, one action *)
(* per statement that touches the socket, the settings or can raise.       *)
(* The semantics are those of the interpreter the code was written for     *)
(* (Python 2: str is a byte string, ssl.wrap_socket exists).               *)
(***************************************************************************)
EXTENDS Integers, Sequences, FiniteSets, TLC

VARIABLES
    settings,   \* PUSH_NOTIFICATIONS_SETTINGS: the value of APNS_CERTIFICATE
    readable,   \* the paths of the files open(path, "r") can read
    nthreads,   \* how many caller threads issue calls (fixed by Init)
    call,       \* per thread: the frame of the library call it is running
    socks       \* the socket objects: state, creator, endpoint, traffic

vars == <<settings, readable, nthreads, call, socks>>

(***************************************************************************)
(* Bounds of the model.                                                    *)
(***************************************************************************)
MaxThreads == 2     \* thread slots
MaxTokens == 3      \* longest registration_ids list of a bulk send
MaxReads == 3       \* most recv calls the feedback peer answers with data
MaxSocks == 2       \* socket objects alive at once

Threads == 1..MaxThreads
SockIds == 1..MaxSocks

(***************************************************************************)
(* Program constants (apns.py lines 26-28).                                *)
(***************************************************************************)
APNS_MAX_NOTIFICATION_SIZE == 256
APNS_SOCKET == 0
APNS_FEEDBACK_SOCKET == 1

(***************************************************************************)
(* Text helpers.                                                           *)
(***************************************************************************)
Rep(n, x) == [i \in 1..n |-> x]

RECURSIVE Concat(_)
Concat(ss) == IF ss = <<>> THEN <<>> ELSE Head(ss) \o Concat(Tail(ss))

\* The literals of _apns_send, as ASCII codes.
K_aps == <<97, 112, 115>>
K_alert == <<97, 108, 101, 114, 116>>
K_badge == <<98, 97, 100, 103, 101>>
K_sound == <<115, 111, 117, 110, 100>>
K_content_available ==
    <<99, 111, 110, 116, 101, 110, 116, 45, 97, 118, 97, 105, 108, 97, 98, 108, 101>>
K_body == <<98, 111, 100, 121>>
K_action_loc_key == <<97, 99, 116, 105, 111, 110, 45, 108, 111, 99, 45, 107, 101, 121>>
K_loc_key == <<108, 111, 99, 45, 107, 101, 121>>
K_loc_args == <<108, 111, 99, 45, 97, 114, 103, 115>>
S_chime == <<99, 104, 105, 109, 101>>

(***************************************************************************)
(* Python values that reach json.dumps: str, int, list, dict.  A dict is a *)
(* sequence of <<key, value>> pairs in insertion order.  None is PyNone.   *)
(***************************************************************************)
PyNone == [t |-> "none"]
PyStr(s) == [t |-> "str", s |-> s]
PyInt(n) == [t |-> "int", n |-> n]
PyList(xs) == [t |-> "list", xs |-> xs]
PyDict(kv) == [t |-> "dict", kv |-> kv]

\* Python truthiness, as `if x:` evaluates it.
Truthy(v) ==
    CASE v.t = "none" -> FALSE
      [] v.t = "str" -> v.s # <<>>
      [] v.t = "int" -> v.n # 0
      [] v.t = "list" -> v.xs # <<>>
      [] v.t = "dict" -> v.kv # <<>>

\* d[k] = v
DictSet(d, k, v) ==
    IF \E i \in 1..Len(d) : d[i][1] = k
    THEN [i \in 1..Len(d) |-> IF d[i][1] = k THEN <<k, v>> ELSE d[i]]
    ELSE Append(d, <<k, v>>)

\* d.update(e)
RECURSIVE DictUpdate(_, _)
DictUpdate(d, e) ==
    IF e = <<>> THEN d ELSE DictUpdate(DictSet(d, Head(e)[1], Head(e)[2]), Tail(e))

(***************************************************************************)
(* json.dumps(v, separators=(",", ":")).                                   *)
(***************************************************************************)
RECURSIVE Digits(_)
Digits(n) == IF n < 10 THEN <<48 + n>> ELSE Digits(n \div 10) \o <<48 + (n % 10)>>

\* A string between quotes; the quote and the backslash are escaped.
RECURSIVE JsonEscape(_)
JsonEscape(s) ==
    IF s = <<>> THEN <<>>
    ELSE IF Len(s) = 1 THEN (IF s[1] \in {34, 92} THEN <<92, s[1]>> ELSE s)
    ELSE LET h == Len(s) \div 2
         IN  JsonEscape(SubSeq(s, 1, h)) \o JsonEscape(SubSeq(s, h + 1, Len(s)))

JsonString(s) == <<34>> \o JsonEscape(s) \o <<34>>

RECURSIVE JsonDumps(_)
RECURSIVE JsonItems(_)
RECURSIVE JsonPairs(_)
JsonItems(xs) ==
    IF xs = <<>> THEN <<>>
    ELSE JsonDumps(Head(xs))
         \o (IF Tail(xs) = <<>> THEN <<>> ELSE <<44>> \o JsonItems(Tail(xs)))
JsonPairs(kv) ==
    IF kv = <<>> THEN <<>>
    ELSE JsonString(Head(kv)[1]) \o <<58>> \o JsonDumps(Head(kv)[2])
         \o (IF Tail(kv) = <<>> THEN <<>> ELSE <<44>> \o JsonPairs(Tail(kv)))
JsonDumps(v) ==
    CASE v.t = "str" -> JsonString(v.s)
      [] v.t = "int" -> Digits(v.n)
      [] v.t = "list" -> <<91>> \o JsonItems(v.xs) \o <<93>>
      [] v.t = "dict" -> <<123>> \o JsonPairs(v.kv) \o <<125>>

(***************************************************************************)
(* binascii.unhexlify and the struct formats.                              *)
(***************************************************************************)
IsHexDigit(c) == c \in (48..57) \cup (65..70) \cup (97..102)
HexValue(c) == IF c <= 57 THEN c - 48 ELSE IF c <= 70 THEN c - 55 ELSE c - 87

\* unhexlify raises on an odd length or a character that is no hex digit.
UnhexlifyOk(tok) == Len(tok) % 2 = 0 /\ \A i \in 1..Len(tok) : IsHexDigit(tok[i])
Unhexlify(tok) ==
    [i \in 1..(Len(tok) \div 2) |-> 16 * HexValue(tok[2 * i - 1]) + HexValue(tok[2 * i])]

\* A variant that writes "H" in the byte order of a little-endian host.
PackH_LittleEndian(n) == <<n % 256, (n \div 256) % 256>>

\* "!H": two bytes, big-endian, unsigned.
PackH(n) == <<(n \div 256) % 256, n % 256>>
\* A variant that packs the token bytes as they are, however many.
Pack32s_AsGiven(b) == SubSeq(b, 1, Len(b))

\* "32s": exactly 32 bytes, cut or padded with zero bytes.
Pack32s(b) == [i \in 1..32 |-> IF i <= Len(b) THEN b[i] ELSE 0]

\* struct.pack("!cH32sH%ds" % len(data), b"\0", 32, unhexlify(token), len(data), data)
_apns_pack_message(token, data) ==
    <<0>> \o PackH(32) \o Pack32s(Unhexlify(token)) \o PackH(Len(data)) \o data

\* "!l": four bytes, big-endian, signed.
UnpackL(b) ==
    LET top == IF b[1] >= 128 THEN b[1] - 256 ELSE b[1]
    IN  ((top * 256 + b[2]) * 256 + b[3]) * 256 + b[4]

\* struct.unpack("!lh32s", data) needs exactly 4 + 2 + 32 bytes.
FeedbackSize == 38
UnpackOk(data) == Len(data) = FeedbackSize

\* A variant that cuts the token to the length the record states.
_apns_unpack_feedback_ByLength(data) ==
    LET n == 256 * data[5] + data[6]
    IN  <<UnpackL(SubSeq(data, 1, 4)), SubSeq(data, 7, IF n < 32 THEN 6 + n ELSE 38)>>

\* timestamp, _, token = struct.unpack(fmt, data); return timestamp, token
_apns_unpack_feedback(data) == <<UnpackL(SubSeq(data, 1, 4)), SubSeq(data, 7, 38)>>

\* datetime.utcfromtimestamp(ts): the day since the epoch and the second of it.
UtcFromTimestamp(ts) == [day |-> ts \div 86400, second |-> ts % 86400]

(***************************************************************************)
(* _apns_send, lines 68-94: the aps dictionary and its compact JSON.       *)
(* The keyword arguments o of a call are a function from the names the     *)
(* caller gave to their values: badge (an integer), sound (a string, empty *)
(* for "" and for None), content_available (a boolean) and action_loc_key, *)
(* loc_key, loc_args, extra (Python values).  A name the caller did not    *)
(* give has the default of the signature (lines 66-67).                    *)
(***************************************************************************)
Defaults ==
    [badge |-> 0, sound |-> S_chime, content_available |-> FALSE,
     action_loc_key |-> PyNone, loc_key |-> PyNone, loc_args |-> PyNone,
     extra |-> PyNone]

Arg(o, name) == IF name \in DOMAIN o THEN o[name] ELSE Defaults[name]

AlertValue(alert, o) ==
    LET action_loc_key == Arg(o, "action_loc_key")
        loc_key == Arg(o, "loc_key")
        loc_args == Arg(o, "loc_args")
    IN  IF Truthy(action_loc_key) \/ Truthy(loc_key) \/ Truthy(loc_args)
        THEN LET a0 == <<<<K_body, PyStr(alert)>>>>
                 a1 == IF Truthy(action_loc_key)
                       THEN DictSet(a0, K_action_loc_key, action_loc_key) ELSE a0
                 a2 == IF Truthy(loc_key) THEN DictSet(a1, K_loc_key, loc_key) ELSE a1
                 a3 == IF Truthy(loc_args) THEN DictSet(a2, K_loc_args, loc_args) ELSE a2
             IN  PyDict(a3)
        ELSE PyStr(alert)

\* A variant that sets "badge" without the test of line 81.
ApsData_AlwaysBadge(alert, o) ==
    LET d0 == DictSet(<<>>, K_alert, AlertValue(alert, o))
        d1 == DictSet(d0, K_badge, PyInt(Arg(o, "badge")))
        d2 == IF Arg(o, "sound") # <<>>
              THEN DictSet(d1, K_sound, PyStr(Arg(o, "sound"))) ELSE d1
        d3 == IF Arg(o, "content_available")
              THEN DictSet(d2, K_content_available, PyInt(1)) ELSE d2
        d4 == IF Truthy(Arg(o, "extra")) THEN DictUpdate(d3, Arg(o, "extra").kv) ELSE d3
    IN  d4

ApsData(alert, o) ==
    LET d0 == DictSet(<<>>, K_alert, AlertValue(alert, o))
        d1 == IF Arg(o, "badge") # 0
              THEN DictSet(d0, K_badge, PyInt(Arg(o, "badge"))) ELSE d0
        d2 == IF Arg(o, "sound") # <<>>
              THEN DictSet(d1, K_sound, PyStr(Arg(o, "sound"))) ELSE d1
        d3 == IF Arg(o, "content_available")
              THEN DictSet(d2, K_content_available, PyInt(1)) ELSE d2
        d4 == IF Truthy(Arg(o, "extra")) THEN DictUpdate(d3, Arg(o, "extra").kv) ELSE d3
    IN  d4

\* data = json.dumps({"aps": data}, separators=(",", ":"))
Payload(alert, o) == JsonDumps(PyDict(<<<<K_aps, PyDict(ApsData(alert, o))>>>>))

\* A variant that refuses a payload of exactly the maximum size.
Overflows_AtLimit(data) == Len(data) >= APNS_MAX_NOTIFICATION_SIZE

\* if len(data) > APNS_MAX_NOTIFICATION_SIZE: raise APNSDataOverflow
Overflows(data) == Len(data) > APNS_MAX_NOTIFICATION_SIZE

(***************************************************************************)
(* The inputs the model draws calls from.                                  *)
(***************************************************************************)
TokA == Concat(Rep(32, <<48, 102>>))    \* "0f" * 32
TokB == Rep(64, 97)                     \* "a" * 64
TokOdd == Rep(63, 97)                   \* 63 hex digits: unhexlify raises
Tokens == {TokA, TokB, TokOdd}

\* Tokens that decode, to fewer and to more than 32 bytes.
TokShort == <<49, 50, 65, 98, 48, 57>>              \* "12Ab09": 3 bytes
TokLong == Concat(Rep(32, <<48, 102>>)) \o <<55, 101>>     \* "0f" * 32 + "7e": 33 bytes
SingleTokens == Tokens \cup {TokShort, TokLong}

RECURSIVE SeqsUpTo(_, _)
SeqsUpTo(S, n) ==
    IF n = 0 THEN {<<>>}
    ELSE LET shorter == SeqsUpTo(S, n - 1)
         IN  shorter \cup {Append(s, x) : s \in shorter, x \in S}

TokenLists == SeqsUpTo(Tokens, MaxTokens)

\* With the default options the payload is 36 bytes longer than the alert.
AlertShort == <<104, 105>>              \* "hi"
AlertFits == Rep(220, 120)              \* payload of exactly 256 bytes
AlertOver == Rep(221, 120)              \* payload of 257 bytes
Alerts == {AlertShort, AlertFits, AlertOver}

OptDefault == [name \in {} |-> PyNone]     \* no keyword argument given
OptBadge == [badge |-> 12, sound |-> <<>>, content_available |-> TRUE]
OptLoc ==
    [loc_key |-> PyStr(<<109, 115, 103>>),
     loc_args |-> PyList(<<PyStr(<<97>>), PyStr(<<34>>)>>),
     extra |-> PyDict(<<<<<<97, 99, 109, 101>>, PyInt(1)>>>>)]
Options == {OptDefault, OptBadge, OptLoc}

\* Feedback records as the peer sends them, and the short chunks a recv may give.
RecA == <<101, 83, 241, 0>> \o <<0, 32>> \o Rep(32, 171)    \* timestamp 1700000000
RecB == <<255, 255, 255, 255>> \o <<0, 0>> \o Rep(32, 1)    \* timestamp -1, length 0
RecC == <<128, 0, 1, 2>> \o <<255, 255>> \o [i \in 1..32 |-> 7 * i]  \* length -1
RecD == <<127, 255, 255, 255>> \o <<1, 0>> \o [i \in 1..32 |-> 255 - i]  \* the greatest
RecE == <<128, 0, 0, 0>> \o <<0, 32>> \o Rep(32, 0)                       \* the least
FullChunks == {RecA, RecB, RecC, RecD, RecE}
ShortChunks == {SubSeq(RecA, 1, 37), <<101>>}

\* The values SETTINGS.get("APNS_CERTIFICATE") can give.
CertUnset == PyNone
CertEmpty == PyStr(<<>>)
CertPath == PyStr(<<99, 46, 112, 101, 109>>)    \* "c.pem"

(***************************************************************************)
(* State.                                                                  *)
(***************************************************************************)
FreeSock == [state |-> "free", by |-> 0, peer |-> "none", sent |-> <<>>,
             rcvd |-> <<>>, calls |-> <<>>]

IdleCall == [op |-> "idle", pc |-> "idle", registration_ids |-> <<>>, i |-> 0,
             alert |-> <<>>, opt |-> OptDefault, given |-> FALSE, data |-> <<>>,
             socket |-> 0, sock |-> 0, devices |-> <<>>, exc |-> "none"]

Init ==
    /\ settings \in {CertUnset, CertEmpty, CertPath}
    /\ readable \in {{}, {CertPath.s}}
    /\ nthreads = 1
    /\ call = [c \in Threads |-> IdleCall]
    /\ socks = [s \in SockIds |-> FreeSock]

Active(c) == call[c].op # "idle"
At(c, pc) == call[c].pc = pc

\* The method calls made on socket s so far, without who made them.
CallNames(s) == [k \in 1..Len(socks[s].calls) |-> socks[s].calls[k][1]]
Count(seq, x) == Cardinality({k \in 1..Len(seq) : seq[k] = x})

\* The sockets thread c's running call has created.
Created(c) == {s \in SockIds : socks[s].state # "free" /\ socks[s].by = c}

\* A method call on socket s by thread c, recorded.
Did(s, name, c) == Append(socks[s].calls, <<name, c>>)

Raise(c, e) == [call EXCEPT ![c].pc = "raised", ![c].exc = e]

\* A variant in which socket() hands out one object of the module again and again.
NewSock_Shared == CHOOSE s \in SockIds : \A t \in SockIds : s <= t

\* A socket object not in use, the least one: socket() makes a new object.
HasFreeSock == \E s \in SockIds : socks[s].state = "free"
NewSock == CHOOSE s \in SockIds :
               /\ socks[s].state = "free"
               /\ \A t \in SockIds : socks[t].state = "free" => s <= t

(***************************************************************************)
(* The calls a thread can make.  c is the calling thread.                  *)
(***************************************************************************)
\* A variant that opens the channel before it encodes, as the bulk send does.
apns_send_message_OpensFirst(c, token, alert, o, passed) ==
    /\ c <= nthreads /\ ~Active(c)
    /\ ~passed
    /\ call' = [call EXCEPT ![c] =
                   [IdleCall EXCEPT !.op = "send_message", !.pc = "cs_socket",
                                    !.registration_ids = <<token>>, !.i = 1,
                                    !.alert = alert, !.opt = o]]
    /\ UNCHANGED <<settings, readable, nthreads, socks>>

\* apns_send_message(registration_id, data, **kwargs), line 118.  With
\* passed the caller hands over a connected socket of its own as socket=.
apns_send_message(c, token, alert, o, passed) ==
    /\ c <= nthreads /\ ~Active(c)
    /\ passed => HasFreeSock
    /\ call' = [call EXCEPT ![c] =
                   [IdleCall EXCEPT !.op = "send_message", !.pc = "build",
                                    !.registration_ids = <<token>>, !.i = 1,
                                    !.alert = alert, !.opt = o, !.given = passed,
                                    !.socket = IF passed THEN NewSock ELSE 0]]
    /\ socks' = IF passed
                THEN [socks EXCEPT ![NewSock] =
                         [FreeSock EXCEPT !.state = "connected", !.peer = "gateway"]]
                ELSE socks
    /\ UNCHANGED <<settings, readable, nthreads>>

\* apns_send_bulk_message(registration_ids, data, **kwargs), line 126.
apns_send_bulk_message(c, ids, alert, o) ==
    /\ c <= nthreads /\ ~Active(c)
    /\ call' = [call EXCEPT ![c] =
                   [IdleCall EXCEPT !.op = "send_bulk_message", !.pc = "cs_socket",
                                    !.registration_ids = ids, !.alert = alert,
                                    !.opt = o, !.given = TRUE]]
    /\ UNCHANGED <<settings, readable, nthreads, socks>>

\* apns_get_feedback(), line 134.
apns_get_feedback(c) ==
    /\ c <= nthreads /\ ~Active(c)
    /\ call' = [call EXCEPT ![c] =
                   [IdleCall EXCEPT !.op = "get_feedback", !.pc = "cs_socket"]]
    /\ UNCHANGED <<settings, readable, nthreads, socks>>

(***************************************************************************)
(* _apns_create_socket(socket_type), lines 31-52.                          *)
(***************************************************************************)
\* The socket_type each operation passes (lines 104, 126, 134).
SocketType(c) == IF call[c].op = "get_feedback" THEN APNS_FEEDBACK_SOCKET ELSE APNS_SOCKET

\* Where the caller goes on once _apns_create_socket has returned.
AfterCreate(c) ==
    CASE call[c].op = "send_message" -> "own_write"
      [] call[c].op = "send_bulk_message" -> "for"
      [] call[c].op = "get_feedback" -> "recv"

\* sock = socket(), line 32.
CreateSocket(c) ==
    /\ At(c, "cs_socket") /\ HasFreeSock
    /\ socks' = [socks EXCEPT ![NewSock] =
                    [FreeSock EXCEPT !.state = "created", !.by = c,
                                     !.calls = <<<<"socket", c>>>>]]
    /\ call' = [call EXCEPT ![c].sock = NewSock, ![c].pc = "cs_certfile"]
    /\ UNCHANGED <<settings, readable, nthreads>>

\* certfile = SETTINGS.get("APNS_CERTIFICATE"); if not certfile: raise, lines 33-37.
CheckCertfile(c) ==
    /\ At(c, "cs_certfile")
    /\ call' = IF ~Truthy(settings)
               THEN Raise(c, "ImproperlyConfigured")
               ELSE [call EXCEPT ![c].pc = "cs_read"]
    /\ UNCHANGED <<settings, readable, nthreads, socks>>

\* A variant that swallows the exception of the unreadable file.
ReadCertfile_Swallows(c) ==
    /\ At(c, "cs_read")
    /\ call' = [call EXCEPT ![c].pc = "cs_wrap"]
    /\ UNCHANGED <<settings, readable, nthreads, socks>>

\* open(certfile), read, close; any exception becomes ImproperlyConfigured, lines 39-44.
ReadCertfile(c) ==
    /\ At(c, "cs_read")
    /\ call' = IF settings.s \in readable
               THEN [call EXCEPT ![c].pc = "cs_wrap"]
               ELSE Raise(c, "ImproperlyConfigured")
    /\ UNCHANGED <<settings, readable, nthreads, socks>>

\* sock = ssl.wrap_socket(sock, ...), line 46; it raises on a certificate it cannot load.
WrapSocket(c) ==
    /\ At(c, "cs_wrap")
    /\ \E ok \in BOOLEAN :
           /\ socks' = [socks EXCEPT
                  ![call[c].sock].calls = Did(call[c].sock, "wrap_socket", c),
                  ![call[c].sock].state = IF ok THEN "wrapped" ELSE @]
           /\ call' = IF ok
                      THEN [call EXCEPT ![c].pc = "cs_connect"]
                      ELSE Raise(c, "SSLError")
    /\ UNCHANGED <<settings, readable, nthreads>>

\* sock.connect(...) to the endpoint of socket_type; return sock, lines 47-52.
Connect(c) ==
    /\ At(c, "cs_connect")
    /\ \E ok \in BOOLEAN :
           /\ socks' = [socks EXCEPT
                  ![call[c].sock].calls = Did(call[c].sock, "connect", c),
                  ![call[c].sock].peer =
                      IF SocketType(c) = APNS_SOCKET THEN "gateway" ELSE "feedback",
                  ![call[c].sock].state = IF ok THEN "connected" ELSE @]
           /\ call' = IF ok
                      THEN [call EXCEPT ![c].socket = call[c].sock,
                                        ![c].pc = AfterCreate(c)]
                      ELSE Raise(c, "socket.error")
    /\ UNCHANGED <<settings, readable, nthreads>>

(***************************************************************************)
(* _apns_send, lines 66-106.                                               *)
(***************************************************************************)
\* Lines 68-97: build the dictionary, serialise it, refuse what is too long.
Build(c) ==
    /\ At(c, "build")
    /\ LET data == Payload(call[c].alert, call[c].opt)
       IN  call' = IF Overflows(data)
                   THEN Raise(c, "APNSDataOverflow")
                   ELSE [call EXCEPT ![c].data = data, ![c].pc = "pack"]
    /\ UNCHANGED <<settings, readable, nthreads, socks>>

\* A variant without the test of line 101: a channel is opened for every send.
SendBranch_AlwaysOpens(socket) == "cs_socket"

\* `if socket:` (line 101): write on the socket passed in, or open one.
SendBranch(socket) == IF socket # 0 THEN "write" ELSE "cs_socket"

\* Line 99: data = _apns_pack_message(token, data); unhexlify may raise.
Pack(c) ==
    /\ At(c, "pack")
    /\ LET token == call[c].registration_ids[call[c].i]
       IN  call' = IF UnhexlifyOk(token)
                   THEN [call EXCEPT ![c].data = _apns_pack_message(token, call[c].data),
                                     ![c].pc = SendBranch(call[c].socket)]
                   ELSE Raise(c, "TypeError")
    /\ UNCHANGED <<settings, readable, nthreads, socks>>

\* A variant whose bulk loop ends after the first write.
AfterWrite_EndsLoop(c) ==
    IF At(c, "own_write") \/ call[c].op = "send_bulk_message" THEN "close" ELSE "done"

\* Where control goes after socket.write(data): line 102 ends _apns_send, which
\* returns into the loop of the bulk send or ends the single send; line 105 is
\* followed by socket.close().
AfterWrite(c) ==
    IF At(c, "own_write") THEN "close"
    ELSE IF call[c].op = "send_bulk_message" THEN "for" ELSE "done"

\* A variant whose write may put a part of the frame on the channel and return.
Write_Partial(c) ==
    /\ At(c, "write") \/ At(c, "own_write")
    /\ \E n \in {Len(call[c].data) - 1, Len(call[c].data)} :
           /\ socks' = [socks EXCEPT
                  ![call[c].socket].calls = Did(call[c].socket, "write", c),
                  ![call[c].socket].sent = Append(@, SubSeq(call[c].data, 1, n))]
           /\ call' = [call EXCEPT ![c].pc = AfterWrite(c)]
    /\ UNCHANGED <<settings, readable, nthreads>>

\* A variant that swallows the exception of a failed write and goes on.
Write_SkipsFailure(c) ==
    /\ At(c, "write") \/ At(c, "own_write")
    /\ \E ok \in BOOLEAN :
           /\ socks' = [socks EXCEPT
                  ![call[c].socket].calls = Did(call[c].socket, "write", c),
                  ![call[c].socket].sent = IF ok THEN Append(@, call[c].data) ELSE @]
           /\ call' = [call EXCEPT ![c].pc = AfterWrite(c)]
    /\ UNCHANGED <<settings, readable, nthreads>>

\* socket.write(data), lines 102 and 105: the frame goes out, or the write raises.
Write(c) ==
    /\ At(c, "write") \/ At(c, "own_write")
    /\ \E ok \in BOOLEAN :
           /\ socks' = [socks EXCEPT
                  ![call[c].socket].calls = Did(call[c].socket, "write", c),
                  ![call[c].socket].sent = IF ok THEN Append(@, call[c].data) ELSE @]
           /\ call' = IF ok
                      THEN [call EXCEPT ![c].pc = AfterWrite(c)]
                      ELSE Raise(c, "socket.error")
    /\ UNCHANGED <<settings, readable, nthreads>>

\* socket.close(), lines 106, 130 and 145, and the return that follows it.
Close(c) ==
    /\ At(c, "close")
    /\ socks' = [socks EXCEPT
           ![call[c].socket].calls = Did(call[c].socket, "close", c),
           ![call[c].socket].state = "closed"]
    /\ call' = [call EXCEPT ![c].pc = "done"]
    /\ UNCHANGED <<settings, readable, nthreads>>

(***************************************************************************)
(* apns_send_bulk_message, lines 127-128: the loop over registration_ids.  *)
(***************************************************************************)
ForNext(c) ==
    /\ At(c, "for")
    /\ call' = IF call[c].i < Len(call[c].registration_ids)
               THEN [call EXCEPT ![c].i = @ + 1, ![c].pc = "build"]
               ELSE [call EXCEPT ![c].pc = "close"]
    /\ UNCHANGED <<settings, readable, nthreads, socks>>

(***************************************************************************)
(* apns_get_feedback, lines 136-144.                                       *)
(***************************************************************************)
\* A variant that never sees the end of the stream.
EndOfStream_Never(data) == Len(data) < 0

\* `if len(data) is 0: break`, line 138 (0 is one object in every interpreter
\* that runs this code, so the identity test is the equality test).
EndOfStream(data) == Len(data) = 0

\* The chunks of data the peer has answered recv with so far.
DataReads(s) == Cardinality({k \in 1..Len(socks[s].rcvd) : socks[s].rcvd[k] # <<>>})

\* data = socket.recv(38), line 137: up to 38 bytes, nothing once the peer has
\* closed the stream, or an error.
RecvFrom(c, chunks) ==
    /\ At(c, "recv")
    /\ \/ \E data \in chunks \cup {<<>>} :
              /\ data # <<>> => DataReads(call[c].socket) < MaxReads
              /\ socks' = [socks EXCEPT
                     ![call[c].socket].calls = Did(call[c].socket, "recv", c),
                     ![call[c].socket].rcvd = Append(@, data)]
              /\ call' = [call EXCEPT
                     ![c].data = data,
                     ![c].pc = IF EndOfStream(data) THEN "close" ELSE "unpack"]
       \/ /\ socks' = [socks EXCEPT
                 ![call[c].socket].calls = Did(call[c].socket, "recv", c)]
          /\ call' = Raise(c, "socket.error")
    /\ UNCHANGED <<settings, readable, nthreads>>

Recv(c) == RecvFrom(c, FullChunks \cup ShortChunks)

\* Lines 140-144: unpack the chunk and append the device; struct.unpack raises
\* on a chunk that is not 38 bytes long.
Unpack(c) ==
    /\ At(c, "unpack")
    /\ call' = IF UnpackOk(call[c].data)
               THEN LET r == _apns_unpack_feedback(call[c].data)
                    IN  [call EXCEPT
                            ![c].devices = Append(@, [timestamp |-> UtcFromTimestamp(r[1]),
                                                      token |-> r[2]]),
                            ![c].pc = "recv"]
               ELSE Raise(c, "struct.error")
    /\ UNCHANGED <<settings, readable, nthreads, socks>>

(***************************************************************************)
(* The caller takes the result or the exception; the frame and the socket  *)
(* objects of the call are dropped.                                        *)
(***************************************************************************)
Return(c) ==
    /\ At(c, "done") \/ At(c, "raised")
    /\ call' = [call EXCEPT ![c] = IdleCall]
    /\ socks' = [s \in SockIds |->
                    IF s \in Created(c) \/ s = call[c].socket THEN FreeSock ELSE socks[s]]
    /\ UNCHANGED <<settings, readable, nthreads>>

Next ==
    \/ \E c \in Threads, token \in SingleTokens, alert \in Alerts, o \in Options,
          passed \in BOOLEAN :
           apns_send_message(c, token, alert, o, passed)
    \/ \E c \in Threads, ids \in TokenLists, alert \in Alerts, o \in Options :
           apns_send_bulk_message(c, ids, alert, o)
    \/ \E c \in Threads : apns_get_feedback(c)
    \/ \E c \in Threads : CreateSocket(c)
    \/ \E c \in Threads : CheckCertfile(c)
    \/ \E c \in Threads : ReadCertfile(c)
    \/ \E c \in Threads : WrapSocket(c)
    \/ \E c \in Threads : Connect(c)
    \/ \E c \in Threads : Build(c)
    \/ \E c \in Threads : Pack(c)
    \/ \E c \in Threads : Write(c)
    \/ \E c \in Threads : Close(c)
    \/ \E c \in Threads : ForNext(c)
    \/ \E c \in Threads : Recv(c)
    \/ \E c \in Threads : Unpack(c)
    \/ \E c \in Threads : Return(c)

Spec == Init /\ [][Next]_vars

\* A call that has started runs on: the code is synchronous, and a statement
\* control has reached is executed.  Of that, the properties below need only
\* that a socket.close() that has been reached is executed.
FairSpec == Spec /\ \A c \in Threads : WF_vars(Close(c))

(***************************************************************************)
(* Two caller threads at once, each running calls of its own; the          *)
(* certificate is in place.  The calls are drawn from a few inputs.        *)
(***************************************************************************)
ConcLists == {<<>>, <<TokA>>, <<TokA, TokB>>}
ConcChunks == {RecA, <<101>>}

InitConc ==
    /\ settings = CertPath
    /\ readable = {CertPath.s}
    /\ nthreads = Cardinality({1, 2})
    /\ call = [c \in Threads |-> IdleCall]
    /\ socks = [s \in SockIds |-> FreeSock]

NextConc ==
    \/ \E c \in Threads, passed \in BOOLEAN :
           apns_send_message(c, TokA, AlertShort, OptDefault, passed)
    \/ \E c \in Threads, ids \in ConcLists :
           apns_send_bulk_message(c, ids, AlertShort, OptDefault)
    \/ \E c \in Threads : apns_get_feedback(c)
    \/ \E c \in Threads : CreateSocket(c)
    \/ \E c \in Threads : CheckCertfile(c)
    \/ \E c \in Threads : ReadCertfile(c)
    \/ \E c \in Threads : WrapSocket(c)
    \/ \E c \in Threads : Connect(c)
    \/ \E c \in Threads : Build(c)
    \/ \E c \in Threads : Pack(c)
    \/ \E c \in Threads : Write(c)
    \/ \E c \in Threads : Close(c)
    \/ \E c \in Threads : ForNext(c)
    \/ \E c \in Threads : RecvFrom(c, ConcChunks)
    \/ \E c \in Threads : Unpack(c)
    \/ \E c \in Threads : Return(c)

ConcSpec == InitConc /\ [][NextConc]_vars

(***************************************************************************)
(* The encoder on its own: single sends on a socket of the caller, drawn   *)
(* from a wider set of tokens, alerts and keyword arguments.               *)
(***************************************************************************)
\* The two hex digits of a byte, the first in upper case.
HexPair(b) ==
    LET hi == b \div 16
        lo == b % 16
    IN  <<IF hi < 10 THEN 48 + hi ELSE 55 + hi, IF lo < 10 THEN 48 + lo ELSE 87 + lo>>

TokMixed == Concat([i \in 1..32 |-> HexPair((37 * i + 11) % 256)])   \* 64 hex digits
TokNotHex == Rep(64, 103)                                            \* "g" * 64
EncTokens == SingleTokens \cup {TokMixed, TokNotHex}

AlertQuoted == <<34, 104, 105, 34, 92>>        \* "hi"\ with its quotes
EncAlerts == Alerts \cup {AlertQuoted}

NoArg == OptDefault
BadgeArgs == {NoArg, "badge" :> 0, "badge" :> 12}
SoundArgs == {NoArg, "sound" :> <<>>, "sound" :> <<100, 105, 110, 103>>}
FlagArgs == {NoArg, "content_available" :> FALSE, "content_available" :> TRUE}
LocArgs == {NoArg, "loc_key" :> PyStr(<<109, 115, 103>>)}
ExtraArgs ==
    {NoArg,
     "extra" :> PyDict(<<>>),
     "extra" :> PyDict(<<<<<<97, 99, 109, 101>>, PyInt(1)>>>>),
     "extra" :> PyDict(<<<<K_badge, PyInt(7)>>>>),
     "extra" :> PyDict(<<<<K_sound, PyStr(<<120>>)>>>>),
     "extra" :> PyDict(<<<<K_content_available, PyInt(0)>>>>)}
EncOptions ==
    Options \cup {b @@ s @@ f @@ l @@ e :
                      b \in BadgeArgs, s \in SoundArgs, f \in FlagArgs,
                      l \in LocArgs, e \in ExtraArgs}

\* The calls drawn: every token with every alert, and every set of keyword
\* arguments with two of the alerts.
EncCalls ==
    {<<t, a, OptDefault>> : t \in EncTokens, a \in EncAlerts}
        \cup {<<TokA, a, o>> : a \in {AlertShort, AlertQuoted}, o \in EncOptions}

InitEnc ==
    /\ settings = CertPath
    /\ readable = {CertPath.s}
    /\ nthreads = Cardinality({1})
    /\ call = [c \in Threads |-> IdleCall]
    /\ socks = [s \in SockIds |-> FreeSock]

NextEnc ==
    \/ \E c \in Threads, in \in EncCalls :
           apns_send_message(c, in[1], in[2], in[3], TRUE)
    \/ \E c \in Threads : Build(c)
    \/ \E c \in Threads : Pack(c)
    \/ \E c \in Threads : Write(c)

EncSpec == InitEnc /\ [][NextEnc]_vars

TypeOK ==
    /\ nthreads \in Threads
    /\ \A c \in Threads :
           /\ call[c].op \in {"idle", "send_message", "send_bulk_message", "get_feedback"}
           /\ call[c].socket \in {0} \cup SockIds
           /\ call[c].i \in 0..Len(call[c].registration_ids)
    /\ \A s \in SockIds :
           socks[s].state \in {"free", "created", "wrapped", "connected", "closed"}

(***************************************************************************)
(* Vocabulary of the properties.                                           *)
(***************************************************************************)
\* The result or the exception has reached the caller.
Finished(c) == At(c, "done") \/ At(c, "raised")

\* The channels the running call of c has opened: its sockets that connected.
Opened(c) == {s \in Created(c) : socks[s].state \in {"connected", "closed"}}

Closes(s) == Count(CallNames(s), "close")

\* The frame _apns_send writes for the k-th token of the call of c.
FrameOf(c, k) ==
    _apns_pack_message(call[c].registration_ids[k], Payload(call[c].alert, call[c].opt))

EncodeErrors == {"APNSDataOverflow", "TypeError"}

(***************************************************************************)
(* C1.  apns_send_bulk_message closes the channel it opened exactly once   *)
(* on every exit path: when the call ends, with a result or with an        *)
(* exception, every channel it opened has been closed once.                *)
(* The code has no try/finally: an exception in the loop skips line 130.   *)
(***************************************************************************)
C1_BulkClosedOnEveryExit ==
    \A c \in Threads :
        (call[c].op = "send_bulk_message" /\ Finished(c))
            => \A s \in Opened(c) : Closes(s) = 1

(***************************************************************************)
(* C2.  apns_get_feedback closes its channel exactly once when the read    *)
(* loop ends, on an empty read as well as on a failed read or decode,      *)
(* before the result or the exception reaches the caller.                  *)
(***************************************************************************)
C2_FeedbackClosedOnEveryExit ==
    \A c \in Threads :
        (call[c].op = "get_feedback" /\ Finished(c))
            => \A s \in Opened(c) : Closes(s) = 1

(***************************************************************************)
(* C3.  apns_send_message without a socket of the caller: once the channel *)
(* is open it is closed on every exit path, a failed write included.       *)
(***************************************************************************)
C3_SendOneClosedOnEveryExit ==
    \A c \in Threads :
        (call[c].op = "send_message" /\ ~call[c].given /\ Finished(c))
            => \A s \in Opened(c) : socks[s].state = "closed"

(***************************************************************************)
(* C4.  A bulk send in which no step fails makes one socket, connects it   *)
(* once, writes one frame per token in the order of registration_ids, and  *)
(* closes once after the last write; every call is on that one socket.     *)
(***************************************************************************)
C4_BulkOneChannelInOrder ==
    \A c \in Threads :
        (call[c].op = "send_bulk_message" /\ At(c, "done")) =>
            LET n == Len(call[c].registration_ids)
                s == call[c].socket
            IN  /\ Created(c) = {s}
                /\ socks[s].peer = "gateway"
                /\ CallNames(s) = <<"socket", "wrap_socket", "connect">>
                                      \o Rep(n, "write") \o <<"close">>
                /\ socks[s].sent = [k \in 1..n |-> FrameOf(c, k)]

\* A bulk send of two different tokens has returned.
C4_Witness ==
    \E c \in Threads :
        /\ call[c].op = "send_bulk_message" /\ At(c, "done")
        /\ call[c].registration_ids = <<TokA, TokB>>
        /\ Len(socks[call[c].socket].sent) = 2

\* The empty list: the channel is opened and closed with nothing written.
C4_WitnessEmpty ==
    \E c \in Threads :
        /\ call[c].op = "send_bulk_message" /\ At(c, "done")
        /\ call[c].registration_ids = <<>>

(***************************************************************************)
(* C5.  In apns_send_message an encode error (a payload over 256 bytes, a  *)
(* token unhexlify refuses) ends the call before any channel is opened:    *)
(* the call has made no socket and written on none, and whenever it has    *)
(* made a socket the frame was already encoded.                            *)
(***************************************************************************)
C5_SendOneEncodesBeforeOpening ==
    \A c \in Threads :
        call[c].op = "send_message" =>
            /\ (At(c, "raised") /\ call[c].exc \in EncodeErrors) =>
                   /\ Created(c) = {}
                   /\ call[c].socket # 0 => socks[call[c].socket].calls = <<>>
            /\ Created(c) # {} =>
                   /\ ~Overflows(Payload(call[c].alert, call[c].opt))
                   /\ UnhexlifyOk(call[c].registration_ids[1])
                   /\ call[c].data = FrameOf(c, 1)

\* A single send without a socket of the caller has raised APNSDataOverflow.
C5_Witness ==
    \E c \in Threads :
        /\ call[c].op = "send_message" /\ ~call[c].given
        /\ At(c, "raised") /\ call[c].exc = "APNSDataOverflow"

\* The same for a token of odd length.
C5_WitnessToken ==
    \E c \in Threads :
        /\ call[c].op = "send_message" /\ ~call[c].given
        /\ At(c, "raised") /\ call[c].exc = "TypeError"

(***************************************************************************)
(* C6.  A send that fails with APNSDataOverflow, single or bulk, has done  *)
(* no I/O: it opened no channel and no frame of it was transmitted.        *)
(* The bulk send opens its channel (line 126) before _apns_send measures   *)
(* the payload (line 96).                                                  *)
(***************************************************************************)
C6_OverflowBeforeAnyIO ==
    \A c \in Threads :
        (At(c, "raised") /\ call[c].exc = "APNSDataOverflow") =>
            /\ Opened(c) = {}
            /\ call[c].socket # 0 => socks[call[c].socket].sent = <<>>

(***************************************************************************)
(* C7.  With the certificate path unset or empty, _apns_create_socket      *)
(* raises ImproperlyConfigured before any socket is created.               *)
(* socket() is line 32, the test of certfile line 34.                      *)
(***************************************************************************)
C7_NoSocketWithoutCertificatePath ==
    \A c \in Threads :
        (At(c, "raised") /\ call[c].exc = "ImproperlyConfigured" /\ ~Truthy(settings))
            => Created(c) = {}

(***************************************************************************)
(* C8.  With the certificate path unset or the file unreadable, opening    *)
(* fails with ImproperlyConfigured before any connection attempt: no       *)
(* socket is wrapped or connected, to the gateway or to the feedback       *)
(* service, and a call that tried to open ends with that exception.        *)
(***************************************************************************)
BadCertificate == ~Truthy(settings) \/ settings.s \notin readable

C8_NoConnectionOnBadCertificate ==
    BadCertificate =>
        \A c \in Threads :
            /\ ~At(c, "cs_wrap") /\ ~At(c, "cs_connect")
            /\ \A s \in Created(c) :
                   /\ CallNames(s) = <<"socket">>
                   /\ socks[s].state = "created" /\ socks[s].peer = "none"
            /\ (Finished(c) /\ Created(c) # {}) =>
                   At(c, "raised") /\ call[c].exc = "ImproperlyConfigured"

\* A feedback read has failed on a certificate file that cannot be read.
C8_Witness ==
    \E c \in Threads :
        /\ call[c].op = "get_feedback" /\ At(c, "raised")
        /\ call[c].exc = "ImproperlyConfigured"
        /\ Truthy(settings) /\ settings.s \notin readable

(***************************************************************************)
(* C9.  apns_get_feedback never hands _apns_unpack_feedback a chunk of     *)
(* fewer than 38 bytes: a read of 0 to 37 bytes ends the loop.             *)
(* Line 138 ends the loop on a read of 0 bytes only.                       *)
(***************************************************************************)
C9_NoShortChunkDecoded ==
    \A c \in Threads : At(c, "unpack") => Len(call[c].data) >= FeedbackSize

(***************************************************************************)
(* C10.  When the peer answers with n records of 38 bytes and then an      *)
(* empty read, apns_get_feedback reads no more, closes the channel once    *)
(* and returns the n records in the order read (none when n = 0); and it   *)
(* does return.                                                            *)
(***************************************************************************)
\* The reads of socket s so far: records of 38 bytes, then one empty read.
RecordsThenEmpty(s) ==
    LET r == socks[s].rcvd
    IN  /\ r # <<>>
        /\ r[Len(r)] = <<>>
        /\ \A k \in 1..(Len(r) - 1) : Len(r[k]) = FeedbackSize

Decoded(data) ==
    [timestamp |-> UtcFromTimestamp(_apns_unpack_feedback(data)[1]),
     token |-> _apns_unpack_feedback(data)[2]]

FeedbackStreamEnded(c) ==
    /\ call[c].op = "get_feedback" /\ call[c].socket # 0
    /\ RecordsThenEmpty(call[c].socket)

C10_Safety ==
    \A c \in Threads :
        FeedbackStreamEnded(c) =>
            LET s == call[c].socket
                r == socks[s].rcvd
                n == Len(r) - 1
            IN  /\ At(c, "close") \/ At(c, "done")
                /\ call[c].devices = [k \in 1..n |-> Decoded(r[k])]
                /\ CallNames(s) = <<"socket", "wrap_socket", "connect">>
                       \o Rep(n + 1, "recv")
                       \o (IF At(c, "done") THEN <<"close">> ELSE <<>>)

C10_FeedbackReturnsRecordsInOrder ==
    /\ []C10_Safety
    /\ \A c \in Threads : FeedbackStreamEnded(c) ~> At(c, "done")

\* Two different records, then the empty read, and the call has returned.
C10_Witness ==
    \E c \in Threads :
        /\ call[c].op = "get_feedback" /\ At(c, "done")
        /\ socks[call[c].socket].rcvd = <<RecA, RecB, <<>>>>
        /\ Len(call[c].devices) = 2
        /\ call[c].devices[1].token # call[c].devices[2].token

(***************************************************************************)
(* C11.  In a bulk send a failure on token k (encoding or writing) ends    *)
(* the batch: the frames of tokens 1..k-1 are on the channel, in order,    *)
(* and stay there, and no frame of token k or of a later token is written. *)
(* Throughout the loop the frames sent are those of the tokens before the  *)
(* current one, plus the current one once its write has returned.          *)
(***************************************************************************)
C11_BulkAbortsOnFailure ==
    \A c \in Threads :
        (call[c].op = "send_bulk_message" /\ call[c].socket # 0) =>
            LET sent == socks[call[c].socket].sent
                k == call[c].i
            IN  /\ sent = [j \in 1..Len(sent) |-> FrameOf(c, j)]
                /\ Len(sent) \in {k - 1, k} \cap Nat
                /\ At(c, "raised") => Len(sent) = k - 1
                /\ (At(c, "build") \/ At(c, "pack") \/ At(c, "write")) => Len(sent) = k - 1

\* The second of three tokens has failed: one frame is out, the third is never sent.
C11_Witness ==
    \E c \in Threads :
        /\ call[c].op = "send_bulk_message" /\ At(c, "raised")
        /\ Len(call[c].registration_ids) = 3 /\ call[c].i = 2
        /\ socks[call[c].socket].sent = <<FrameOf(c, 1)>>

(***************************************************************************)
(* C12.  Channels are not shared between calls that run at the same time:  *)
(* whatever the interleaving, a call that was not handed a socket makes a  *)
(* socket of its own, the one it holds, and every method call on a socket  *)
(* the module made (write, recv, close, and the rest) comes from the call  *)
(* that made it; two running calls never hold the same socket.             *)
(***************************************************************************)
\* The call of c was handed its socket by the caller (socket=, line 101).
HandedSocket(c) == call[c].op = "send_message" /\ call[c].given

C12_ChannelsNotShared ==
    /\ \A s \in SockIds :
           socks[s].by # 0 =>
               \A k \in 1..Len(socks[s].calls) : socks[s].calls[k][2] = socks[s].by
    /\ \A c \in Threads :
           (Active(c) /\ ~HandedSocket(c)) =>
               /\ Cardinality(Created(c)) <= 1
               /\ call[c].sock # 0 => Created(c) = {call[c].sock}
               /\ call[c].socket # 0 => call[c].socket = call[c].sock
    /\ \A c, d \in Threads :
           (c # d /\ call[c].socket # 0) =>
               /\ call[c].socket # call[d].socket
               /\ call[c].socket # call[d].sock

\* A bulk send and a feedback read run at once, each with traffic on its channel.
C12_Witness ==
    \E c, d \in Threads :
        /\ call[c].op = "send_bulk_message" /\ At(c, "for")
        /\ socks[call[c].socket].sent # <<>>
        /\ call[d].op = "get_feedback" /\ At(d, "recv")
        /\ socks[call[d].socket].rcvd # <<>>

(***************************************************************************)
(* C13.  A send fails with APNSDataOverflow exactly when the compact JSON  *)
(* of its payload is longer than 256 bytes.  Once the size test of a send  *)
(* has run, the call has raised APNSDataOverflow if the payload is 257     *)
(* bytes or more and has not if it is 256 bytes or fewer; a payload of     *)
(* 256 bytes is framed and written, and no byte of a refused payload is    *)
(* written on any socket.                                                  *)
(***************************************************************************)
IsSend(c) == call[c].op \in {"send_message", "send_bulk_message"}

\* The size test of line 96 has run in the call of c.
Measured(c) == IsSend(c) /\ call[c].i >= 1 /\ ~At(c, "build")

\* The sockets the call of c holds or has made.
SocketsOf(c) == Created(c) \cup ({call[c].socket} \ {0})

C13_OverflowExactlyOver256 ==
    \A c \in Threads :
        Measured(c) =>
            LET data == Payload(call[c].alert, call[c].opt)
            IN  /\ (At(c, "raised") /\ call[c].exc = "APNSDataOverflow")
                       <=> Len(data) > 256
                /\ Len(data) > 256 =>
                       \A s \in SocketsOf(c) :
                           /\ socks[s].sent = <<>>
                           /\ Count(CallNames(s), "write") = 0
                /\ \A s \in SocketsOf(c) : \A k \in 1..Len(socks[s].sent) :
                       /\ Len(socks[s].sent[k]) <= 37 + 256
                       /\ SubSeq(socks[s].sent[k], 38, Len(socks[s].sent[k])) = data

\* A payload of exactly 256 bytes has been framed and written.
C13_Witness ==
    \E c \in Threads :
        /\ call[c].op = "send_message" /\ At(c, "done")
        /\ Len(Payload(call[c].alert, call[c].opt)) = 256
        /\ \E s \in SocketsOf(c) : socks[s].sent = <<FrameOf(c, 1)>>

\* A payload of 257 bytes has been refused in a bulk send, its channel open.
C13_WitnessRefused ==
    \E c \in Threads :
        /\ call[c].op = "send_bulk_message" /\ At(c, "raised")
        /\ call[c].exc = "APNSDataOverflow"
        /\ Len(Payload(call[c].alert, call[c].opt)) = 257
        /\ socks[call[c].socket].state = "connected"

(***************************************************************************)
(* C14.  For every token of 64 hex digits and every payload of N <= 256    *)
(* bytes, the frame written is: the byte 0, the two bytes 0 and 32, the 32 *)
(* bytes whose hex digits are the token's, the two bytes of N with the     *)
(* high byte first, then the N bytes of the payload; it is 37 + N bytes    *)
(* long.                                                                   *)
(***************************************************************************)
\* A hex digit in lower case.
LowerHex(ch) == IF ch \in 65..70 THEN ch + 32 ELSE ch
\* The lower-case hex digit of a value 0..15.
HexDigitOf(n) == IF n < 10 THEN 48 + n ELSE 87 + n

\* f is the frame of the layout above for token tok and payload p.
IsFrame(f, tok, p) ==
    /\ Len(f) = 37 + Len(p)
    /\ f[1] = 0
    /\ f[2] = 0 /\ f[3] = 32
    /\ \A i \in 1..32 :
           /\ f[3 + i] \in 0..255
           /\ HexDigitOf(f[3 + i] \div 16) = LowerHex(tok[2 * i - 1])
           /\ HexDigitOf(f[3 + i] % 16) = LowerHex(tok[2 * i])
    /\ f[36] \in 0..255 /\ f[37] \in 0..255
    /\ 256 * f[36] + f[37] = Len(p)
    /\ \A j \in 1..Len(p) : f[37 + j] = p[j]

C14_FrameLayout ==
    \A c \in Threads :
        (IsSend(c) /\ call[c].socket # 0) =>
            LET sent == socks[call[c].socket].sent
                p == Payload(call[c].alert, call[c].opt)
            IN  \A k \in 1..Len(sent) :
                    Len(call[c].registration_ids[k]) = 64 =>
                        /\ Len(p) <= 256
                        /\ IsFrame(sent[k], call[c].registration_ids[k], p)

\* A frame with a payload of 256 bytes (length bytes 1, 0) has been written.
C14_Witness ==
    \E c \in Threads :
        /\ call[c].op = "send_message" /\ At(c, "done")
        /\ call[c].registration_ids = <<TokMixed>>
        /\ Len(Payload(call[c].alert, call[c].opt)) = 256
        /\ Len(socks[call[c].socket].sent) = 1
        /\ Len(socks[call[c].socket].sent[1]) = 293

(***************************************************************************)
(* C15.  In the JSON of the aps object, "badge" is a key exactly when the  *)
(* badge argument is not 0, "sound" is a key exactly when the sound is not *)
(* empty (it is "chime" when the caller names none), and                   *)
(* "content-available" is a key, with the value 1, exactly when the flag   *)
(* is set -- provided the extra mapping carries none of these three keys.  *)
(* data.update(extra) runs last (line 91): a key of extra is in the object *)
(* whatever the arguments are, and replaces the value they gave.           *)
(***************************************************************************)
\* p occurs in s.
HasSub(s, p) == \E i \in 1..(Len(s) - Len(p) + 1) : SubSeq(s, i, i + Len(p) - 1) = p

\* The JSON text data has the key k, and has it with the value text v.
HasKey(data, k) == HasSub(data, <<34>> \o k \o <<34, 58>>)
HasKeyValue(data, k, v) ==
    \E end \in {44, 125} : HasSub(data, <<34>> \o k \o <<34, 58>> \o v \o <<end>>)

\* The payload of the call of c has just been serialized (line 94).
Serialized(c) == call[c].op = "send_message" /\ At(c, "pack")

\* What the statement says of the payload data made from the arguments o.
BadgeSoundFlagRule(data, o) ==
    /\ HasKey(data, K_badge) <=> Arg(o, "badge") # 0
    /\ HasKey(data, K_sound) <=> Arg(o, "sound") # <<>>
    /\ ("sound" \notin DOMAIN o) =>
           HasKeyValue(data, K_sound, <<34, 99, 104, 105, 109, 101, 34>>)
    /\ HasKey(data, K_content_available) <=> Arg(o, "content_available")
    /\ HasKey(data, K_content_available) =>
           HasKeyValue(data, K_content_available, <<49>>)

\* extra names badge, sound or content-available.
ExtraCollides(o) ==
    /\ Truthy(Arg(o, "extra"))
    /\ \E j \in 1..Len(Arg(o, "extra").kv) :
           Arg(o, "extra").kv[j][1] \in {K_badge, K_sound, K_content_available}

C15_BadgeSoundFlag ==
    \A c \in Threads :
        (Serialized(c) /\ ~ExtraCollides(call[c].opt)) =>
            BadgeSoundFlagRule(call[c].data, call[c].opt)

\* The statement without the proviso, as the claim has it.
C15_BadgeSoundFlagWhateverExtra ==
    \A c \in Threads :
        Serialized(c) => BadgeSoundFlagRule(call[c].data, call[c].opt)

\* A payload with badge 12, the default sound, the flag and a harmless extra.
C15_Witness ==
    \E c \in Threads :
        /\ Serialized(c) /\ ~ExtraCollides(call[c].opt)
        /\ Truthy(Arg(call[c].opt, "extra"))
        /\ DOMAIN call[c].opt = {"badge", "content_available", "extra"}
        /\ HasKeyValue(call[c].data, K_badge, <<49, 50>>)
        /\ HasKeyValue(call[c].data, K_content_available, <<49>>)
        /\ HasKey(call[c].data, K_sound)

(***************************************************************************)
(* C16.  _apns_unpack_feedback on a buffer of 38 bytes returns as the      *)
(* timestamp bytes 0..3 read as a signed 32-bit big-endian integer and as  *)
(* the token bytes 6..37 unchanged, whatever bytes 4..5 (the length field) *)
(* hold; the device apns_get_feedback appends carries that token.          *)
(***************************************************************************)
\* ts is the signed 32-bit integer whose big-endian two's complement is b.
IsSignedBigEndian(ts, b) ==
    /\ ts % 256 = b[4]
    /\ (ts \div 256) % 256 = b[3]
    /\ (ts \div 65536) % 256 = b[2]
    /\ (ts \div 16777216) % 256 = b[1]
    /\ (ts \div 16777216) \in -128..127

C16_UnpackFeedback ==
    \A c \in Threads :
        call[c].op = "get_feedback" =>
            /\ (At(c, "unpack") /\ Len(call[c].data) = 38) =>
                   LET r == _apns_unpack_feedback(call[c].data)
                   IN  /\ Len(r) = 2
                       /\ IsSignedBigEndian(r[1], call[c].data)
                       /\ r[2] = [i \in 1..32 |-> call[c].data[6 + i]]
            /\ \A k \in 1..Len(call[c].devices) :
                   LET data == socks[call[c].socket].rcvd[k]
                   IN  /\ call[c].devices[k].token = [i \in 1..32 |-> data[6 + i]]
                       /\ \E ts \in {_apns_unpack_feedback(data)[1]} :
                              /\ IsSignedBigEndian(ts, data)
                              /\ call[c].devices[k].timestamp.day = ts \div 86400
                              /\ call[c].devices[k].timestamp.second = ts % 86400

\* Records with length fields 0xFFFF and 0 and negative timestamps were decoded.
C16_Witness ==
    \E c \in Threads :
        /\ call[c].op = "get_feedback" /\ Len(call[c].devices) = 2
        /\ socks[call[c].socket].rcvd = <<RecC, RecB>>
        /\ call[c].devices[1].token = [i \in 1..32 |-> 7 * i]
        /\ call[c].devices[2].timestamp = [day |-> -1, second |-> 86399]

(***************************************************************************)
(* C17.  Every write of a frame puts the whole frame on the channel or     *)
(* raises: what a send has put on its channel is whole frames only, one    *)
(* for each write call that returned, and a send that goes on to the next  *)
(* token or returns has no write behind it that transmitted less.          *)
(* socket.write is SSLSocket.write on a blocking socket, which returns     *)
(* only when the whole buffer is written.                                  *)
(***************************************************************************)
Writes(s) == Count(CallNames(s), "write")

\* The call of c has raised out of socket.write.
WriteRaised(c) ==
    /\ At(c, "raised") /\ call[c].exc = "socket.error"
    /\ call[c].socket # 0 /\ Writes(call[c].socket) > Len(socks[call[c].socket].sent)

OpenFailed(c) ==
    /\ At(c, "raised") /\ call[c].sock # 0 /\ call[c].socket = 0
    /\ call[c].exc \in {"ImproperlyConfigured", "SSLError", "socket.error"}

C18_FailedOpenReleasesSocket ==
    \A c \in Threads :
        OpenFailed(c) =>
            \A s \in Created(c) : socks[s].state = "closed" /\ Closes(s) >= 1

(***************************************************************************)
(* C19.  _apns_send given a socket by its caller writes exactly one frame  *)
(* on it, makes no socket and leaves the given one open: the socket gets   *)
(* write calls only.  That holds for the socket= of apns_send_message and  *)
(* for the socket the bulk send passes in each turn of its loop.  Only a   *)
(* send that was given no socket makes one, and it closes it after the     *)
(* write.                                                                  *)
(***************************************************************************)
\* The bulk send is between line 126 and line 130: _apns_send runs on its socket.
InBulkLoop(c) ==
    /\ call[c].op = "send_bulk_message" /\ call[c].socket # 0
    /\ At(c, "for") \/ At(c, "build") \/ At(c, "pack") \/ At(c, "write") \/ At(c, "raised")

C19_SuppliedSocketLeftOpen ==
    \A c \in Threads :
        /\ HandedSocket(c) =>
               LET s == call[c].socket
               IN  /\ Created(c) = {} /\ call[c].sock = 0
                   /\ socks[s].state = "connected" /\ Closes(s) = 0
                   /\ \A k \in 1..Len(socks[s].calls) : socks[s].calls[k] = <<"write", c>>
                   /\ Writes(s) <= 1
                   /\ At(c, "done") => (Writes(s) = 1 /\ socks[s].sent = <<FrameOf(c, 1)>>)
        /\ InBulkLoop(c) =>
               LET s == call[c].socket
               IN  /\ Created(c) = {s}
                   /\ socks[s].state = "connected" /\ Closes(s) = 0
                   /\ Count(CallNames(s), "socket") = 1 /\ Count(CallNames(s), "connect") = 1
                   /\ At(c, "for") => Writes(s) = call[c].i /\ Len(socks[s].sent) = call[c].i
        /\ (call[c].op = "send_message" /\ Created(c) # {}) =>
               /\ ~call[c].given
               /\ Created(c) = {call[c].sock}
               /\ At(c, "done") =>
                      /\ CallNames(call[c].sock) =
                             <<"socket", "wrap_socket", "connect", "write", "close">>
                      /\ socks[call[c].sock].state = "closed"

\* A single send on the caller's socket has returned; the socket is still open.
C19_Witness ==
    \E c \in Threads :
        /\ HandedSocket(c) /\ At(c, "done")
        /\ socks[call[c].socket].state = "connected"
        /\ socks[call[c].socket].sent = <<FrameOf(c, 1)>>
        /\ socks[call[c].socket].calls = <<<<"write", c>>>>

\* A single send without a socket has opened one, written and closed it.
C19_WitnessOwn ==
    \E c \in Threads :
        /\ call[c].op = "send_message" /\ ~call[c].given /\ At(c, "done")
        /\ socks[call[c].sock].state = "closed"

(***************************************************************************)
(* C20.  The length of the decoded token is not validated.  A token of an  *)
(* even number of hex digits never makes the send raise at line 99; if it  *)
(* decodes to fewer than 32 bytes the token field of the frame is those    *)
(* bytes followed by zero bytes, if to more than 32 it is the first 32;    *)
(* the frame has the token length 32 in bytes 1..2 and is 37 + N bytes     *)
(* long for a payload of N bytes.                                          *)
(***************************************************************************)
\* tok is an even number of hex digits, in either case.
Decodable(tok) ==
    /\ Len(tok) % 2 = 0
    /\ \A i \in 1..Len(tok) : \E n \in 0..15 : HexDigitOf(n) = LowerHex(tok[i])

C20_TokenLengthNotValidated ==
    \A c \in Threads :
        IsSend(c) =>
            /\ (At(c, "raised") /\ call[c].exc = "TypeError")
                   => ~Decodable(call[c].registration_ids[call[c].i])
            /\ call[c].socket # 0 =>
                   LET sent == socks[call[c].socket].sent
                       p == Payload(call[c].alert, call[c].opt)
                   IN  \A k \in 1..Len(sent) :
                           LET f == sent[k]
                               tok == call[c].registration_ids[k]
                           IN  /\ Decodable(tok)
                               /\ Len(f) = 37 + Len(p)
                               /\ f[2] = 0 /\ f[3] = 32
                               /\ 256 * f[36] + f[37] = Len(p)
                               /\ \A i \in 1..32 :
                                      IF 2 * i <= Len(tok)
                                      THEN /\ f[3 + i] \in 0..255
                                           /\ HexDigitOf(f[3 + i] \div 16) = LowerHex(tok[2 * i - 1])
                                           /\ HexDigitOf(f[3 + i] % 16) = LowerHex(tok[2 * i])
                                      ELSE f[3 + i] = 0

\* The token "12Ab09" went out as 0x12 0xAB 0x09 and 29 zero bytes.
C20_Witness ==
    \E c \in Threads :
        /\ call[c].op = "send_message" /\ At(c, "done")
        /\ call[c].registration_ids = <<TokShort>>
        /\ Len(socks[call[c].socket].sent) = 1
        /\ SubSeq(socks[call[c].socket].sent[1], 1, 35) = <<0, 0, 32, 18, 171, 9>> \o Rep(29, 0)

\* A token of 33 bytes went out cut to its first 32.
C20_WitnessLong ==
    \E c \in Threads :
        /\ call[c].op = "send_message" /\ At(c, "done")
        /\ call[c].registration_ids = <<TokLong>>
        /\ Len(socks[call[c].socket].sent) = 1
        /\ SubSeq(socks[call[c].socket].sent[1], 4, 35) = Rep(32, 15)

====
